---- MODULE Spec2Model ----
(***************************************************************************)
(* Model of verifiable-claude: the Merkle commitment (merkle-tree.js), the  *)
(* deterministic verifier (deterministic-verifier.js) and the              *)
(* VerifiableClaude facade with its caches (verifiable-claude.js).         *)
(*                                                                         *)
(* Strings are sequences of tokens.  A token is <<tag, name, inner>>:      *)
(*   "w" a lower-case word, "W" a capitalised word, "d" a 4-digit number,  *)
(*   "q" a double quote character, "h" a SHA-256 hex digest whose inner    *)
(*   is the string that was hashed, "u" the JavaScript value undefined.    *)
(* A digest token stands for its 64 hex characters, so concatenation of    *)
(* digests is sequence concatenation and sha256 is injective.              *)
(***************************************************************************)
EXTENDS Integers, Sequences, FiniteSets, TLC

VARIABLES
    batch,       \* the claim texts handed to new MerkleTree(...)
    merkleTree,  \* the MerkleTree object: leaves, tree (levels), root
    ret,         \* the outcome of the last MerkleTree call
    vres,        \* the outcome of the last verifyClaim / verify call
    gres,        \* the outcome of the last generate call
    cache,       \* VerifiableClaude.cache
    searchCache, \* ClaimVerifier.searchCache
    urlCall,     \* the call of checkURLValidity in flight and its HEAD requests
    enableCache, \* VerifiableClaude.enableCache
    cacheFile    \* what saveCache last wrote to VerifiableClaude.cacheFile

vars == <<batch, merkleTree, ret, vres, gres, cache, searchCache,
          urlCall, enableCache, cacheFile>>

----------------------------------------------------------------------------
(* Bounds *)

MaxLeaves == 4
MaxNeg == 2

----------------------------------------------------------------------------
(* Strings and hashing *)

Tok(tag, name) == <<tag, name, <<>>>>

\* The JavaScript value undefined, where a string was expected.
Undefined == << <<"u", "undefined", <<>>>> >>

\* String(undefined), as string concatenation converts it.
ToStr(v) == IF v = Undefined THEN <<Tok("w", "undefined")>> ELSE v

\* crypto.createHash('sha256').update(str).digest('hex')
sha256(str) == << <<"h", "", str>> >>

\* MerkleTree.hash: a string is hashed as it is.
hash(data) == sha256(data)

\* DeterministicVerifier.hashClaim
hashClaim(text) == sha256(text)

\* A proof as a JavaScript value: [kind, steps].  An array has its steps.
ArrayOf(steps) == [kind |-> "array", steps |-> steps]

\* A proof value that is no array: null, undefined, a number, a plain object.
NotIterable(kind) == [kind |-> kind, steps |-> <<>>]

TextPlain == <<Tok("w", "rain")>>
TextEntity == <<Tok("W", "Paris")>>
TextDate == <<Tok("d", "2024")>>
TextQuote == <<Tok("q", "dq"), Tok("w", "hello"), Tok("q", "dq")>>
\* A text that spells the concatenation of two leaf digests.
TextCrafted == hash(TextPlain) \o hash(TextEntity)

LeafTexts == {TextPlain, TextEntity, TextCrafted}

RECURSIVE SeqsUpTo(_, _)
SeqsUpTo(S, n) ==
    IF n = 0 THEN {<<>>}
    ELSE LET shorter == SeqsUpTo(S, n - 1)
         IN shorter \cup {Append(s, x) : s \in {t \in shorter : Len(t) = n - 1}, x \in S}

Batches == SeqsUpTo(LeafTexts, MaxLeaves)

----------------------------------------------------------------------------
(* MerkleTree *)

\* buildTree with the right child never read: every parent is hash(left + left).
NextLevel_RightIsLeft(level) ==
    [k \in 1..((Len(level) + 1) \div 2) |->
        hash(level[2 * k - 1] \o level[2 * k - 1])]

\* One pass of the for loop of buildTree: the parents of a level.
NextLevel(level) ==
    [k \in 1..((Len(level) + 1) \div 2) |->
        LET left == level[2 * k - 1]
            right == IF 2 * k <= Len(level) THEN level[2 * k] ELSE left
        IN hash(left \o right)]

RECURSIVE BuildFrom(_)
BuildFrom(currentLevel) ==
    IF Len(currentLevel) > 1
    THEN <<currentLevel>> \o BuildFrom(NextLevel(currentLevel))
    ELSE <<currentLevel>>

\* buildTree with the loop run once for a single leaf: the leaf is paired
\* with itself and the root is hash(leaf + leaf).
buildTree_PairsSingleLeaf(leaves) ==
    IF Len(leaves) = 0 THEN << <<>> >>
    ELSE IF Len(leaves) = 1 THEN <<leaves, NextLevel(leaves)>>
    ELSE BuildFrom(leaves)

buildTree(leaves) ==
    IF Len(leaves) = 0 THEN << <<>> >> ELSE BuildFrom(leaves)

\* new MerkleTree(leaves)
NewMerkleTree(texts) ==
    LET leaves == [i \in 1..Len(texts) |-> hash(texts[i])]
        tree == buildTree(leaves)
        top == tree[Len(tree)]
    IN [leaves |-> leaves,
        tree |-> tree,
        root |-> IF Len(top) = 0 THEN Undefined ELSE top[1]]

getRoot(t) == t.root

\* JavaScript %: the sign follows the dividend.
JSMod(a, b) == IF a >= 0 THEN a % b ELSE -((-a) % b)

\* levelNodes[i] of a JavaScript array: undefined outside 0..length-1.
At(arr, i) == IF i >= 0 /\ i < Len(arr) THEN arr[i + 1] ELSE Undefined

\* The loop of getProof with the two position tags exchanged.
RECURSIVE ProofLoop_TagsSwapped(_, _, _, _)
ProofLoop_TagsSwapped(t, currentIndex, currentLevel, proof) ==
    IF currentLevel < Len(t.tree) - 1
    THEN LET levelNodes == t.tree[currentLevel + 1]
             isRightNode == JSMod(currentIndex, 2) = 1
             siblingIndex == IF isRightNode THEN currentIndex - 1 ELSE currentIndex + 1
             pushed == IF siblingIndex < Len(levelNodes)
                       THEN Append(proof,
                                [kind |-> "object",
                                 hash |-> At(levelNodes, siblingIndex),
                                 position |-> IF isRightNode THEN "right" ELSE "left"])
                       ELSE proof
         IN ProofLoop_TagsSwapped(t, currentIndex \div 2, currentLevel + 1, pushed)
    ELSE proof

\* The loop of getProof with a step for the self-paired node as well: the
\* node's own hash, tagged right.
RECURSIVE ProofLoop_PadsSelfPair(_, _, _, _)
ProofLoop_PadsSelfPair(t, currentIndex, currentLevel, proof) ==
    IF currentLevel < Len(t.tree) - 1
    THEN LET levelNodes == t.tree[currentLevel + 1]
             isRightNode == JSMod(currentIndex, 2) = 1
             siblingIndex == IF isRightNode THEN currentIndex - 1 ELSE currentIndex + 1
             pushed == Append(proof,
                              [kind |-> "object",
                               hash |-> IF siblingIndex < Len(levelNodes)
                                        THEN At(levelNodes, siblingIndex)
                                        ELSE At(levelNodes, currentIndex),
                               position |-> IF isRightNode THEN "left" ELSE "right"])
         IN ProofLoop_PadsSelfPair(t, currentIndex \div 2, currentLevel + 1, pushed)
    ELSE proof

RECURSIVE ProofLoop(_, _, _, _)
ProofLoop(t, currentIndex, currentLevel, proof) ==
    IF currentLevel < Len(t.tree) - 1
    THEN LET levelNodes == t.tree[currentLevel + 1]
             isRightNode == JSMod(currentIndex, 2) = 1
             siblingIndex == IF isRightNode THEN currentIndex - 1 ELSE currentIndex + 1
             pushed == IF siblingIndex < Len(levelNodes)
                       THEN Append(proof,
                                [kind |-> "object",
                                 hash |-> At(levelNodes, siblingIndex),
                                 position |-> IF isRightNode THEN "left" ELSE "right"])
                       ELSE proof
         IN ProofLoop(t, currentIndex \div 2, currentLevel + 1, pushed)
    ELSE proof

getProof(t, index) ==
    IF index >= Len(t.leaves)
    THEN [threw |-> TRUE, error |-> "Leaf index out of bounds", proof |-> <<>>]
    ELSE [threw |-> FALSE, error |-> "", proof |-> ProofLoop(t, index, 0, <<>>)]

getLeafHash(t, index) == At(t.leaves, index)

\* The for...of loop of verifyProof.  Reading a property of null or of
\* undefined throws a TypeError; a primitive step has neither property.
RECURSIVE ReplayFrom(_, _, _)
ReplayFrom(currentHash, steps, k) ==
    IF k > Len(steps) THEN [threw |-> FALSE, hash |-> currentHash]
    ELSE LET step == steps[k] IN
         IF step.kind \in {"null", "undefined"}
         THEN [threw |-> TRUE, hash |-> currentHash]
         ELSE LET h == IF step.kind = "object" THEN step.hash ELSE Undefined
                  p == IF step.kind = "object" THEN step.position ELSE "undefined"
                  combined == IF p = "left"
                              THEN ToStr(h) \o currentHash
                              ELSE currentHash \o ToStr(h)
              IN ReplayFrom(sha256(combined), steps, k + 1)

\* verifyProof with the position tag never read: the sibling always goes right.
verifyProof_IgnoresPosition(leafHash, proof, root) ==
    IF proof.kind \notin {"array", "string"}
    THEN [threw |-> TRUE, value |-> FALSE]
    ELSE LET steps == [k \in 1..Len(proof.steps) |->
                          [proof.steps[k] EXCEPT !.position = "right"]]
             r == ReplayFrom(leafHash, steps, 1)
         IN [threw |-> r.threw, value |-> (~r.threw /\ r.hash = root)]

\* MerkleTree.verifyProof.  proof is a JavaScript value: an array or a string
\* is iterable, anything else makes for...of throw a TypeError.
verifyProof(leafHash, proof, root) ==
    IF proof.kind \notin {"array", "string"}
    THEN [threw |-> TRUE, value |-> FALSE]
    ELSE LET r == ReplayFrom(leafHash, proof.steps, 1)
         IN [threw |-> r.threw, value |-> (~r.threw /\ r.hash = root)]

----------------------------------------------------------------------------
(* DeterministicVerifier: text extraction *)

IsUndefined(v) == v = Undefined

\* String.prototype.toLowerCase on the vocabulary of the model.
LowerName(name) ==
    CASE name = "Paris" -> "paris"
      [] name = "The" -> "the"
      [] name = "Rome" -> "rome"
      [] OTHER -> name

LowerTok(tok) == IF tok[1] = "W" THEN <<"w", LowerName(tok[2]), tok[3]>> ELSE tok

toLowerCase(str) == [i \in 1..Len(str) |-> LowerTok(str[i])]

\* String.prototype.includes: needle occurs in hay as a contiguous run.
includes(hay, needle) ==
    \E i \in 0..(Len(hay) - Len(needle)) :
        \A j \in 1..Len(needle) : hay[i + j] = needle[j]

\* Array de-duplication through new Set(...): first occurrences, in order.
Dedupe(seq) ==
    LET keep == {i \in 1..Len(seq) : \A j \in 1..(i - 1) : seq[j] # seq[i]}
        RECURSIVE Pick(_)
        Pick(i) == IF i > Len(seq) THEN <<>>
                   ELSE IF i \in keep THEN <<seq[i]>> \o Pick(i + 1) ELSE Pick(i + 1)
    IN Pick(1)

IsQuoteChar(tok) == tok[1] = "q"

\* The scan of /"([^"]+)"/g from position p: an opening quote, at least one
\* other character, the next quote; an empty pair "" is retried one on.
RECURSIVE QuotesFrom(_, _)
QuotesFrom(text, p) ==
    IF p > Len(text) THEN <<>>
    ELSE IF ~IsQuoteChar(text[p]) THEN QuotesFrom(text, p + 1)
    ELSE LET closers == {j \in (p + 1)..Len(text) : IsQuoteChar(text[j])}
         IN IF closers = {} THEN <<>>
            ELSE LET j == CHOOSE c \in closers : \A d \in closers : c <= d
                 IN IF j = p + 1 THEN QuotesFrom(text, p + 1)
                    ELSE <<SubSeq(text, p + 1, j - 1)>> \o QuotesFrom(text, j + 1)

extractQuotes(text) == QuotesFrom(text, 1)

IsCapWord(tok) == tok[1] = "W"

\* The matches of /\b[A-Z][a-z]+(?:\s+[A-Z][a-z]+)*\b/g: the maximal runs of
\* capitalised words.
RECURSIVE CapRunsFrom(_, _)
CapRunsFrom(text, p) ==
    IF p > Len(text) THEN <<>>
    ELSE IF ~IsCapWord(text[p]) THEN CapRunsFrom(text, p + 1)
    ELSE LET ends == {e \in p..Len(text) :
                         /\ \A i \in p..e : IsCapWord(text[i])
                         /\ (e = Len(text) \/ ~IsCapWord(text[e + 1]))}
             e == CHOOSE x \in ends : TRUE
         IN <<SubSeq(text, p, e)>> \o CapRunsFrom(text, e + 1)

stopWords ==
    {<<Tok("W", w)>> : w \in {"The", "A", "An", "In", "On", "At", "To", "For", "Of", "With"}}

SelectSeq2(seq, keep) ==
    LET RECURSIVE Pick(_)
        Pick(i) == IF i > Len(seq) THEN <<>>
                   ELSE IF i \in keep THEN <<seq[i]>> \o Pick(i + 1) ELSE Pick(i + 1)
    IN Pick(1)

extractEntities(text) ==
    LET matches == CapRunsFrom(text, 1)
    IN Dedupe(SelectSeq2(matches, {i \in 1..Len(matches) : matches[i] \notin stopWords}))

\* The matches of /\b\d{4}\b/g; the vocabulary has no M/D/Y or month-name dates.
extractDates(text) ==
    LET idx == {i \in 1..Len(text) : text[i][1] = "d"}
    IN Dedupe([k \in 1..Len(SelectSeq2(text, idx)) |-> <<SelectSeq2(text, idx)[k]>>])

\* A url is [kind, host]: kind "url" parses with new URL, kind "text" does
\* not, kind "undefined" is a missing field.
extractDomain(url) == url.host

highCredibility ==
    {<<"wikipedia", "org">>, <<"edu">>, <<"gov">>, <<"nature", "com">>, <<"science", "org">>,
     <<"nytimes", "com">>, <<"bbc", "com">>, <<"reuters", "com">>, <<"arxiv", "org">>,
     <<"britannica", "com">>, <<"nih", "gov">>, <<"cdc", "gov">>}

mediumCredibility ==
    {<<"medium", "com">>, <<"forbes", "com">>, <<"bloomberg", "com">>, <<"wsj", "com">>,
     <<"theguardian", "com">>, <<"washingtonpost", "com">>, <<"cnn", "com">>}

lowCredibility == {<<"blogspot", "com">>, <<"wordpress", "com">>, <<"tumblr", "com">>}

getDomainCredibilityScore(domain) ==
    IF \E d \in highCredibility : includes(domain, d) THEN 90
    ELSE IF \E d \in mediumCredibility : includes(domain, d) THEN 70
    ELSE IF \E d \in lowCredibility : includes(domain, d) THEN 40
    ELSE 60

\* urlExists: answered is what the HEAD request would come to (a status of
\* 200..399 against any other status, an error or the 5 s timeout); a url
\* that new URL cannot parse resolves false without a request.
urlExists(url, answered) == url.kind = "url" /\ answered

----------------------------------------------------------------------------
(* DeterministicVerifier: the five checks *)

\* A check's outcome; threw stands for the TypeError that reading a property
\* of a missing snippet, title or url raises.  reason is <<wording, a, b>>.
Check(name, passed, critical, reason, evidence) ==
    [threw |-> FALSE, name |-> name, passed |-> passed, critical |-> critical,
     reason |-> reason, evidence |-> evidence]

Thrown(name) ==
    [threw |-> TRUE, name |-> name, passed |-> FALSE, critical |-> FALSE,
     reason |-> <<"TypeError", 0, 0>>, evidence |-> <<>>]

\* The same threshold rounded down: Math.floor(n * 0.5).
CeilHalf_RoundsDown(n) == n \div 2

\* Math.ceil(n * 0.5)
CeilHalf(n) == (n + 1) \div 2

Min(a, b) == IF a <= b THEN a ELSE b

\* CHECK 1.  probes[i] is what the request to the i-th url comes to.
checkURLValidity(claim, evidence, probes) ==
    IF Len(evidence.results) = 0
    THEN Check("URL Validity", FALSE, TRUE, <<"No evidence sources provided", 0, 0>>, <<>>)
    ELSE LET n == Min(3, Len(evidence.results))
             urlChecks == [i \in 1..n |->
                              [url |-> evidence.results[i].url,
                               exists |-> urlExists(evidence.results[i].url, probes[i])]]
             validURLs == Len(SelectSeq(urlChecks, LAMBDA c : c.exists))
             passed == validURLs >= CeilHalf(Len(urlChecks))
         IN Check("URL Validity", passed, TRUE,
                  IF passed THEN <<"URLs are valid and accessible", validURLs, Len(urlChecks)>>
                  ELSE <<"Only URLs are valid", validURLs, Len(urlChecks)>>,
                  urlChecks)

\* results.some(result => result.snippet.toLowerCase().includes(quote)):
\* some stops at the first hit and throws at a missing snippet before it.
SomeSnippetHas(results, quote) ==
    LET hits == {i \in 1..Len(results) :
                    /\ ~IsUndefined(results[i].snippet)
                    /\ includes(toLowerCase(results[i].snippet), toLowerCase(quote))}
        holes == {i \in 1..Len(results) : IsUndefined(results[i].snippet)}
    IN [threw |-> \E h \in holes : \A i \in hits : h < i,
        found |-> hits # {}]

\* CHECK 2 with a quote that was not found reported as a non-critical failure.
checkQuoteExactMatch_NeverCritical(claim, evidence) ==
    LET quotedText == extractQuotes(claim.text) IN
    IF Len(quotedText) = 0
    THEN Check("Quote Exact Match", TRUE, FALSE, <<"No quoted text in claim", 0, 0>>, <<>>)
    ELSE LET looked == [k \in 1..Len(quotedText) |->
                           SomeSnippetHas(evidence.results, quotedText[k])]
             matches == [k \in 1..Len(quotedText) |->
                            [quote |-> quotedText[k], found |-> looked[k].found]]
             allMatched == \A k \in 1..Len(matches) : matches[k].found
         IN IF \E k \in 1..Len(looked) : looked[k].threw
            THEN Thrown("Quote Exact Match")
            ELSE Check("Quote Exact Match", allMatched, FALSE,
                       IF allMatched THEN <<"All quoted text found in evidence", 0, 0>>
                       ELSE <<"quotes not found in evidence",
                              Len(SelectSeq(matches, LAMBDA m : ~m.found)), 0>>,
                       matches)

\* CHECK 2
checkQuoteExactMatch(claim, evidence) ==
    LET quotedText == extractQuotes(claim.text) IN
    IF Len(quotedText) = 0
    THEN Check("Quote Exact Match", TRUE, FALSE, <<"No quoted text in claim", 0, 0>>, <<>>)
    ELSE LET looked == [k \in 1..Len(quotedText) |->
                           SomeSnippetHas(evidence.results, quotedText[k])]
             matches == [k \in 1..Len(quotedText) |->
                            [quote |-> quotedText[k], found |-> looked[k].found]]
             allMatched == \A k \in 1..Len(matches) : matches[k].found
         IN IF \E k \in 1..Len(looked) : looked[k].threw
            THEN Thrown("Quote Exact Match")
            ELSE Check("Quote Exact Match", allMatched, TRUE,
                       IF allMatched THEN <<"All quoted text found in evidence", 0, 0>>
                       ELSE <<"quotes not found in evidence",
                              Len(SelectSeq(matches, LAMBDA m : ~m.found)), 0>>,
                       matches)

\* snippet.toLowerCase().includes(e) || title.toLowerCase().includes(e)
MentionsLower(result, needle) ==
    IF IsUndefined(result.snippet) THEN [threw |-> TRUE, hit |-> FALSE]
    ELSE IF includes(toLowerCase(result.snippet), toLowerCase(needle))
    THEN [threw |-> FALSE, hit |-> TRUE]
    ELSE IF IsUndefined(result.title) THEN [threw |-> TRUE, hit |-> FALSE]
    ELSE [threw |-> FALSE, hit |-> includes(toLowerCase(result.title), toLowerCase(needle))]

\* CHECK 3
checkEntityConsistency(claim, evidence) ==
    LET entities == extractEntities(claim.text) IN
    IF Len(entities) = 0
    THEN Check("Entity Consistency", TRUE, FALSE, <<"No named entities detected", 0, 0>>, <<>>)
    ELSE LET results == evidence.results
             entityChecks == [k \in 1..Len(entities) |->
                 [entity |-> entities[k],
                  sourcesMentioning |->
                      Len(SelectSeq(results, LAMBDA r : MentionsLower(r, entities[k]).hit)),
                  totalSources |-> Len(results)]]
             consistentEntities == Len(SelectSeq(entityChecks, LAMBDA e : e.sourcesMentioning >= 2))
             passed == consistentEntities >= CeilHalf(Len(entities))
         IN IF \E k \in 1..Len(entities), i \in 1..Len(results) :
                   MentionsLower(results[i], entities[k]).threw
            THEN Thrown("Entity Consistency")
            ELSE Check("Entity Consistency", passed, FALSE,
                       IF passed
                       THEN <<"entities found in multiple sources",
                              consistentEntities, Len(entities)>>
                       ELSE <<"Only entities found in multiple sources",
                              consistentEntities, Len(entities)>>,
                       entityChecks)

RECURSIVE SumScores(_, _)
SumScores(scores, i) ==
    IF i > Len(scores) THEN 0 ELSE scores[i].score + SumScores(scores, i + 1)

\* CHECK 4.  avgScore is sum / length: 0 / 0 is NaN for no results, and
\* NaN >= 60 is false.
checkSourceCredibility(evidence) ==
    LET results == evidence.results
        credibilityScores == [i \in 1..Len(results) |->
            [domain |-> extractDomain(results[i].url),
             score |-> getDomainCredibilityScore(extractDomain(results[i].url)),
             url |-> results[i].url]]
        isNaN == Len(credibilityScores) = 0
        passed == ~isNaN /\ SumScores(credibilityScores, 1) >= 60 * Len(credibilityScores)
    IN IF \E i \in 1..Len(results) : results[i].url.kind = "undefined"
       THEN Thrown("Source Credibility")
       ELSE Check("Source Credibility", passed, FALSE,
                  IF passed
                  THEN <<"Average credibility score", SumScores(credibilityScores, 1),
                         Len(credibilityScores)>>
                  ELSE <<"Low credibility score", SumScores(credibilityScores, 1),
                         Len(credibilityScores)>>,
                  credibilityScores)

\* snippet.includes(date) || title.includes(date)
Mentions(result, needle) ==
    IF IsUndefined(result.snippet) THEN [threw |-> TRUE, hit |-> FALSE]
    ELSE IF includes(result.snippet, needle) THEN [threw |-> FALSE, hit |-> TRUE]
    ELSE IF IsUndefined(result.title) THEN [threw |-> TRUE, hit |-> FALSE]
    ELSE [threw |-> FALSE, hit |-> includes(result.title, needle)]

\* CHECK 5
checkTemporalConsistency(claim, evidence) ==
    LET dates == extractDates(claim.text) IN
    IF Len(dates) = 0
    THEN Check("Temporal Consistency", TRUE, FALSE, <<"No temporal claims detected", 0, 0>>, <<>>)
    ELSE LET results == evidence.results
             dateChecks == [k \in 1..Len(dates) |->
                 [date |-> dates[k],
                  sourcesConfirming |-> Len(SelectSeq(results, LAMBDA r : Mentions(r, dates[k]).hit)),
                  totalSources |-> Len(results)]]
             confirmedDates == Len(SelectSeq(dateChecks, LAMBDA d : d.sourcesConfirming > 0))
             passed == confirmedDates >= CeilHalf(Len(dates))
         IN IF \E k \in 1..Len(dates), i \in 1..Len(results) :
                   Mentions(results[i], dates[k]).threw
            THEN Thrown("Temporal Consistency")
            ELSE Check("Temporal Consistency", passed, FALSE,
                       IF passed
                       THEN <<"dates confirmed in sources", confirmedDates, Len(dates)>>
                       ELSE <<"Only dates confirmed in sources", confirmedDates, Len(dates)>>,
                       dateChecks)

----------------------------------------------------------------------------
(* DeterministicVerifier: fraud proofs and the verdict *)

MaxClock == 2

\* What new Date() reads during one call of verifyClaim: when it starts and
\* when it builds the fraud proof.  A timestamp of 0 is an absent field.
Clock ==
    {[started |-> a, proved |-> b] : a \in 1..MaxClock, b \in 1..MaxClock} \
        {[started |-> a, proved |-> b] : a \in 2..MaxClock, b \in 1..(MaxClock - 1)}

NoClock == [started |-> 0, proved |-> 0]

NoFraudProof ==
    [present |-> FALSE, claimHash |-> Undefined, failedCheck |-> "", reason |-> <<"", 0, 0>>,
     evidence |-> <<>>, timestamp |-> 0, proofHash |-> <<>>, expectedRoot |-> Undefined]

\* generateFraudProof with the timestamp hashed into proofHash as well.
generateFraudProof_HashesTimestamp(claim, failedCheck, now) ==
    [present |-> TRUE,
     claimHash |-> hashClaim(claim.text),
     failedCheck |-> failedCheck.name,
     reason |-> failedCheck.reason,
     evidence |-> failedCheck.evidence,
     timestamp |-> now,
     proofHash |-> <<"sha256", <<claim.text, failedCheck.name, failedCheck.evidence, now>>>>,
     expectedRoot |-> Undefined]

\* proofHash is the digest of JSON.stringify({claim, check, evidence}).
generateFraudProof(claim, failedCheck, now) ==
    [present |-> TRUE,
     claimHash |-> hashClaim(claim.text),
     failedCheck |-> failedCheck.name,
     reason |-> failedCheck.reason,
     evidence |-> failedCheck.evidence,
     timestamp |-> now,
     proofHash |-> <<"sha256", <<claim.text, failedCheck.name, failedCheck.evidence>>>>,
     expectedRoot |-> Undefined]

\* Math.round((passedChecks / totalChecks) * 100)
RoundPercent(passedChecks, totalChecks) ==
    (200 * passedChecks + totalChecks) \div (2 * totalChecks)

NoResult ==
    [threw |-> FALSE, claim |-> <<>>, claimHash |-> Undefined, timestamp |-> 0,
     checks |-> <<>>,
     verdict |-> "null", fraudProof |-> NoFraudProof, confidence |-> 0,
     reasoning |-> "", evidence |-> <<>>, merkleProofValid |-> "undefined"]

\* The aggregation with the threshold compared strictly: more than 60%.
aggregate_StrictThreshold(claim, checks, clock) ==
    LET results == [NoResult EXCEPT !.claim = claim.text,
                                    !.claimHash = hashClaim(claim.text),
                                    !.timestamp = clock.started,
                                    !.checks = checks]
        passedChecks == Len(SelectSeq(checks, LAMBDA c : c.passed))
        totalChecks == Len(checks)
        criticalFailures == SelectSeq(checks, LAMBDA c : c.critical /\ ~c.passed)
    IN IF \E i \in 1..Len(checks) : checks[i].threw
       THEN [NoResult EXCEPT !.threw = TRUE]
       ELSE IF Len(criticalFailures) > 0
       THEN [results EXCEPT !.verdict = "FRAUD_PROVEN",
                            !.fraudProof = generateFraudProof(claim, criticalFailures[1], clock.proved),
                            !.confidence = 10,
                            !.reasoning = "Critical check failed"]
       ELSE IF 10 * passedChecks > 6 * totalChecks
       THEN [results EXCEPT !.verdict = "VERIFIED",
                            !.confidence = RoundPercent(passedChecks, totalChecks),
                            !.reasoning = "deterministic checks passed"]
       ELSE IF 10 * passedChecks >= 3 * totalChecks
       THEN [results EXCEPT !.verdict = "UNCERTAIN",
                            !.confidence = RoundPercent(passedChecks, totalChecks),
                            !.reasoning = "Only some checks passed"]
       ELSE [results EXCEPT !.verdict = "FRAUD_PROVEN",
                            !.fraudProof = generateFraudProof(claim, checks[1], clock.proved),
                            !.confidence = 10,
                            !.reasoning = "Most checks failed"]

\* The aggregation reporting the last critical failure instead of the first.
aggregate_LastCritical(claim, checks, clock) ==
    LET results == [NoResult EXCEPT !.claim = claim.text,
                                    !.claimHash = hashClaim(claim.text),
                                    !.timestamp = clock.started,
                                    !.checks = checks]
        passedChecks == Len(SelectSeq(checks, LAMBDA c : c.passed))
        totalChecks == Len(checks)
        criticalFailures == SelectSeq(checks, LAMBDA c : c.critical /\ ~c.passed)
    IN IF \E i \in 1..Len(checks) : checks[i].threw
       THEN [NoResult EXCEPT !.threw = TRUE]
       ELSE IF Len(criticalFailures) > 0
       THEN [results EXCEPT !.verdict = "FRAUD_PROVEN",
                            !.fraudProof = generateFraudProof(
                                claim, criticalFailures[Len(criticalFailures)], clock.proved),
                            !.confidence = 10,
                            !.reasoning = "Critical check failed"]
       ELSE IF 10 * passedChecks >= 6 * totalChecks
       THEN [results EXCEPT !.verdict = "VERIFIED",
                            !.confidence = RoundPercent(passedChecks, totalChecks),
                            !.reasoning = "deterministic checks passed"]
       ELSE IF 10 * passedChecks >= 3 * totalChecks
       THEN [results EXCEPT !.verdict = "UNCERTAIN",
                            !.confidence = RoundPercent(passedChecks, totalChecks),
                            !.reasoning = "Only some checks passed"]
       ELSE [results EXCEPT !.verdict = "FRAUD_PROVEN",
                            !.fraudProof = generateFraudProof(claim, checks[1], clock.proved),
                            !.confidence = 10,
                            !.reasoning = "Most checks failed"]

\* verifyClaim from "results.checks = checks" on: the verdict over the five
\* check results.  A TypeError of one of the awaited checks rejects the call.
\* passedChecks / totalChecks is compared as the quotient of two integers:
\* k/5 >= 0.6 iff 10k >= 6 * 5.
aggregate(claim, checks, clock) ==
    LET results == [NoResult EXCEPT !.claim = claim.text,
                                    !.claimHash = hashClaim(claim.text),
                                    !.timestamp = clock.started,
                                    !.checks = checks]
        passedChecks == Len(SelectSeq(checks, LAMBDA c : c.passed))
        totalChecks == Len(checks)
        criticalFailures == SelectSeq(checks, LAMBDA c : c.critical /\ ~c.passed)
    IN IF \E i \in 1..Len(checks) : checks[i].threw
       THEN [NoResult EXCEPT !.threw = TRUE]
       ELSE IF Len(criticalFailures) > 0
       THEN [results EXCEPT !.verdict = "FRAUD_PROVEN",
                            !.fraudProof = generateFraudProof(claim, criticalFailures[1], clock.proved),
                            !.confidence = 10,
                            !.reasoning = "Critical check failed"]
       ELSE IF 10 * passedChecks >= 6 * totalChecks
       THEN [results EXCEPT !.verdict = "VERIFIED",
                            !.confidence = RoundPercent(passedChecks, totalChecks),
                            !.reasoning = "deterministic checks passed"]
       ELSE IF 10 * passedChecks >= 3 * totalChecks
       THEN [results EXCEPT !.verdict = "UNCERTAIN",
                            !.confidence = RoundPercent(passedChecks, totalChecks),
                            !.reasoning = "Only some checks passed"]
       ELSE [results EXCEPT !.verdict = "FRAUD_PROVEN",
                            !.fraudProof = generateFraudProof(claim, checks[1], clock.proved),
                            !.confidence = 10,
                            !.reasoning = "Most checks failed"]

\* DeterministicVerifier.verifyClaim: the five checks in their fixed order,
\* then the verdict.
verifyClaim(claim, evidence, probes, clock) ==
    aggregate(claim, <<checkURLValidity(claim, evidence, probes),
                       checkQuoteExactMatch(claim, evidence),
                       checkEntityConsistency(claim, evidence),
                       checkSourceCredibility(evidence),
                       checkTemporalConsistency(claim, evidence)>>, clock)

----------------------------------------------------------------------------
(* Claims and evidence the verifier is run on *)

MaxEvidence == 4

TextBoth == <<Tok("W", "Rome"), Tok("d", "1999")>>

ClaimTexts == {TextPlain, TextQuote, TextEntity, TextDate, TextBoth}

UrlWiki == [kind |-> "url", host |-> <<"en", "wikipedia", "org">>]
UrlBlog == [kind |-> "url", host |-> <<"foo", "blogspot", "com">>]
UrlPlain == [kind |-> "url", host |-> <<"example", "com">>]

ItemWiki ==
    [title |-> <<Tok("W", "Paris")>>,
     snippet |-> <<Tok("W", "Paris"), Tok("w", "hello"), Tok("d", "2024")>>,
     url |-> UrlWiki]
ItemBlog ==
    [title |-> <<Tok("w", "rain")>>, snippet |-> <<Tok("w", "rain")>>, url |-> UrlBlog]
\* A search result whose description is missing.
ItemBare ==
    [title |-> <<Tok("w", "rain")>>, snippet |-> Undefined, url |-> UrlPlain]

EvidenceItems == {ItemWiki, ItemBlog, ItemBare}

ResultLists == SeqsUpTo(EvidenceItems, MaxEvidence)

\* What searchForEvidence hands over.
Evidence(results, failed) == [results |-> results, error |-> failed]

AbsentProof == NotIterable("undefined")

Claim(text, merkleProof, merkleIndex) ==
    [text |-> text, merkleProof |-> merkleProof, merkleIndex |-> merkleIndex]

----------------------------------------------------------------------------
(* Calls on a MerkleTree, as test-fraud-proofs.js and a challenger make them *)

NullStep == [kind |-> "null", hash |-> Undefined, position |-> "undefined"]
NumberStep == [kind |-> "number", hash |-> Undefined, position |-> "undefined"]
CharStep == [kind |-> "string", hash |-> Undefined, position |-> "undefined"]

Flip(position) == IF position = "left" THEN "right" ELSE "left"

StepTampers == {"flip", "corrupt", "nohash", "noposition", "nullstep", "numberstep"}
ProofTampers == {"none", "drop", "extra", "extranull", "null", "undefined",
                 "number", "object", "string"}

\* What a challenger can hand to verifyProof, starting from the proof p that
\* getProof returned: p itself, p with step k altered, or another value.
Tamper(p, kind, k) ==
    CASE kind = "none" -> ArrayOf(p)
      [] kind = "flip" -> ArrayOf([p EXCEPT ![k].position = Flip(@)])
      [] kind = "corrupt" -> ArrayOf([p EXCEPT ![k].hash = sha256(@)])
      [] kind = "nohash" -> ArrayOf([p EXCEPT ![k].hash = Undefined])
      [] kind = "noposition" -> ArrayOf([p EXCEPT ![k].position = "undefined"])
      [] kind = "nullstep" -> ArrayOf([p EXCEPT ![k] = NullStep])
      [] kind = "numberstep" -> ArrayOf([p EXCEPT ![k] = NumberStep])
      [] kind = "drop" -> ArrayOf(SubSeq(p, 1, Len(p) - 1))
      [] kind = "extra" ->
            ArrayOf(Append(p, [kind |-> "object", hash |-> sha256(TextPlain),
                               position |-> "right"]))
      [] kind = "extranull" -> ArrayOf(Append(p, NullStep))
      [] kind = "string" -> [kind |-> "string", steps |-> <<CharStep>>]
      [] OTHER -> NotIterable(kind)

NoRet ==
    [op |-> "none", index |-> 0, tamper |-> "", k |-> 0, arg |-> NotIterable("undefined"),
     threw |-> FALSE, error |-> "", proof |-> <<>>, value |-> FALSE, hash |-> Undefined]

NoVres ==
    [op |-> "none", claim |-> Claim(<<>>, AbsentProof, 0),
     context |-> [userPrompt |-> Undefined, merkleRoot |-> Undefined],
     evidence |-> Evidence(<<>>, FALSE), probes |-> <<>>, clock |-> NoClock,
     cached |-> FALSE,
     threw |-> FALSE, result |-> NoResult]
NoCommitment == [present |-> FALSE, root |-> Undefined, claimCount |-> 0]
NoGres ==
    [op |-> "none", prompt |-> <<>>, claims |-> <<>>, commitment |-> NoCommitment,
     metadata |-> [cached |-> FALSE, verificationMode |-> ""]]
EmptyMap == <<>>

\* No call of checkURLValidity is in flight.
NoUrlCall ==
    [phase |-> "idle", results |-> <<>>, requests |-> <<>>, order |-> <<>>, returned |-> <<>>]

Construct(texts) ==
    /\ batch = texts
    /\ merkleTree = NewMerkleTree(texts)

InitMerkle ==
    /\ \E texts \in Batches : Construct(texts)
    /\ ret = NoRet
    /\ vres = NoVres
    /\ gres = NoGres
    /\ cache = EmptyMap
    /\ searchCache = EmptyMap
    /\ urlCall = NoUrlCall
    /\ enableCache = TRUE
    /\ cacheFile = EmptyMap

GetRoot ==
    /\ ret' = [NoRet EXCEPT !.op = "getRoot", !.hash = getRoot(merkleTree)]
    /\ UNCHANGED <<batch, merkleTree, vres, gres, cache, searchCache,
                 urlCall, enableCache, cacheFile>>

GetProof(index) ==
    /\ LET r == getProof(merkleTree, index)
       IN ret' = [NoRet EXCEPT !.op = "getProof", !.index = index, !.threw = r.threw,
                               !.error = r.error, !.proof = r.proof]
    /\ UNCHANGED <<batch, merkleTree, vres, gres, cache, searchCache,
                 urlCall, enableCache, cacheFile>>

GetLeafHash(index) ==
    /\ ret' = [NoRet EXCEPT !.op = "getLeafHash", !.index = index,
                            !.hash = getLeafHash(merkleTree, index)]
    /\ UNCHANGED <<batch, merkleTree, vres, gres, cache, searchCache,
                 urlCall, enableCache, cacheFile>>

\* MerkleTree.verifyProof(hash(text_i), <proof of i, possibly tampered>, root)
VerifyProof(index, kind, k) ==
    /\ LET p == getProof(merkleTree, index).proof
           arg == Tamper(p, kind, k)
           r == verifyProof(hash(batch[index + 1]), arg, getRoot(merkleTree))
       IN ret' = [NoRet EXCEPT !.op = "verifyProof", !.index = index, !.tamper = kind,
                               !.k = k, !.arg = arg, !.proof = p,
                               !.threw = r.threw, !.value = r.value]
    /\ UNCHANGED <<batch, merkleTree, vres, gres, cache, searchCache,
                 urlCall, enableCache, cacheFile>>

\* MerkleTree.verifyProof(hash(text), proof, root) for any text a challenger
\* submits, with the proof of a leaf from its step number from + 1 on.
VerifyProofOfText(text, index, from) ==
    /\ LET p == getProof(merkleTree, index).proof
           arg == ArrayOf(SubSeq(p, from + 1, Len(p)))
           r == verifyProof(hash(text), arg, getRoot(merkleTree))
       IN ret' = [NoRet EXCEPT !.op = "verifyProofOfText", !.index = index,
                               !.k = from, !.arg = arg, !.proof = p, !.hash = hash(text),
                               !.threw = r.threw, !.value = r.value]
    /\ UNCHANGED <<batch, merkleTree, vres, gres, cache, searchCache,
                   urlCall, enableCache, cacheFile>>

Indices == 0..(Len(merkleTree.leaves) - 1)

\* Calls are synchronous: the caller makes the next one after it has taken
\* the value the last one returned.
Idle == ret.op = "none"

Return ==
    /\ ~Idle
    /\ ret' = NoRet
    /\ UNCHANGED <<batch, merkleTree, vres, gres, cache, searchCache,
                 urlCall, enableCache, cacheFile>>

NextMerkle ==
    \/ Idle /\ GetRoot
    \/ Idle /\ \E index \in (-MaxNeg)..(Len(merkleTree.leaves) + 1) : GetProof(index)
    \/ Idle /\ \E index \in (-MaxNeg)..Len(merkleTree.leaves) : GetLeafHash(index)
    \/ Idle /\ \E index \in Indices, kind \in ProofTampers :
          /\ kind = "drop" => Len(getProof(merkleTree, index).proof) > 0
          /\ VerifyProof(index, kind, 0)
    \/ Idle /\ \E index \in Indices, kind \in StepTampers :
          \E k \in 1..Len(getProof(merkleTree, index).proof) :
              VerifyProof(index, kind, k)
    \/ Idle /\ \E text \in LeafTexts, index \in Indices :
          \E from \in 0..Len(getProof(merkleTree, index).proof) :
              VerifyProofOfText(text, index, from)
    \/ Return

SpecMerkle == InitMerkle /\ [][NextMerkle]_vars

----------------------------------------------------------------------------
(* Calls of DeterministicVerifier.verifyClaim *)

InitVerifier ==
    /\ Construct(<<>>)
    /\ ret = NoRet
    /\ vres = NoVres
    /\ gres = NoGres
    /\ cache = EmptyMap
    /\ searchCache = EmptyMap
    /\ urlCall = NoUrlCall
    /\ enableCache = TRUE
    /\ cacheFile = EmptyMap

VerifyClaim(text, results, probes, clock) ==
    /\ LET claim == Claim(text, AbsentProof, 0)
           evidence == Evidence(results, FALSE)
       IN vres' = [NoVres EXCEPT !.op = "verifyClaim", !.claim = claim,
                                 !.evidence = evidence, !.probes = probes,
                                 !.clock = clock,
                                 !.result = verifyClaim(claim, evidence, probes, clock)]
    /\ UNCHANGED <<batch, merkleTree, ret, gres, cache, searchCache,
                 urlCall, enableCache, cacheFile>>

Answered == vres.op = "none"

TakeResult ==
    /\ ~Answered
    /\ vres' = NoVres
    /\ UNCHANGED <<batch, merkleTree, ret, gres, cache, searchCache,
                 urlCall, enableCache, cacheFile>>

\* What the HEAD requests to the first three urls can come to; an entry past
\* the results stands for a request that is not made.
ProbeOutcomes(results) ==
    {q \in [1..3 -> BOOLEAN] : \A i \in 1..3 : i > Len(results) => q[i]}

NextVerifier ==
    \/ Answered /\ \E text \in ClaimTexts, results \in ResultLists :
          \E probes \in ProbeOutcomes(results), clock \in Clock :
              VerifyClaim(text, results, probes, clock)
    \/ TakeResult

SpecVerifier == InitVerifier /\ [][NextVerifier]_vars

----------------------------------------------------------------------------
(* checkURLValidity with its HEAD requests in flight *)

\* A url that new URL(...) cannot parse.
UrlBroken == [kind |-> "text", host |-> <<>>]
ItemBroken ==
    [title |-> <<Tok("w", "rain")>>, snippet |-> <<Tok("w", "rain")>>, url |-> UrlBroken]

ProbeLists == SeqsUpTo({ItemWiki, ItemBroken}, MaxEvidence)

\* What a request's listeners can be called with: the response callback with
\* a status of 200..299, of 300..399 or another one, 'error' and 'timeout'.
ProbeEvents == {"status2xx", "status3xx", "statusOther", "error", "timeout"}

\* res.statusCode >= 200 && res.statusCode < 400
Responses == {"status2xx", "status3xx", "statusOther"}

\* resolve overwriting the value the promise was settled with.
resolve_LastCallWins(req, value) == [req EXCEPT !.settled = TRUE, !.exists = value]

\* resolve(value) inside urlExists: the first call settles the promise.
resolve(req, value) ==
    IF req.settled THEN req ELSE [req EXCEPT !.settled = TRUE, !.exists = value]

\* urlExists up to req.end(): a url that does not parse resolves false in
\* the catch, and no request is sent.
SendRequest(url) ==
    LET req == [url |-> url, sent |-> url.kind = "url", events |-> <<>>,
                settled |-> FALSE, exists |-> FALSE]
    IN IF url.kind = "url" THEN req ELSE resolve(req, FALSE)

\* The listeners of urlExists: what one event does to the request's promise.
Listener(req, event) ==
    LET heard == [req EXCEPT !.events = Append(req.events, event)]
    IN resolve(heard, event \in {"status2xx", "status3xx"})

\* The events a request can still emit: a response comes first or not at
\* all, 'timeout' destroys the request, and 'error' is the last event.
CanEmit(req, event) ==
    /\ req.sent
    /\ event \notin {req.events[k] : k \in 1..Len(req.events)}
    /\ "error" \notin {req.events[k] : k \in 1..Len(req.events)}
    /\ event \in Responses => req.events = <<>>

\* The index of each request whose promise has settled, in the order of settling.
Settle(order, before, after, i) ==
    IF ~before.settled /\ after.settled THEN Append(order, i) ELSE order

\* checkURLValidity up to "await Promise.all(...)".  Without evidence it
\* returns at once.
BeginURLValidity(results) ==
    /\ urlCall.phase = "idle"
    /\ urlCall' =
          IF Len(results) = 0
          THEN [phase |-> "returned", results |-> results, requests |-> <<>>,
                order |-> <<>>,
                returned |-> checkURLValidity(Claim(TextPlain, AbsentProof, 0),
                                              Evidence(results, FALSE), <<>>)]
          ELSE LET requests == [i \in 1..Min(3, Len(results)) |-> SendRequest(results[i].url)]
               IN [phase |-> "waiting", results |-> results, requests |-> requests,
                   order |-> SelectSeq(<<1, 2, 3>>,
                                       LAMBDA i : i <= Len(requests) /\ requests[i].settled),
                   returned |-> <<>>]
    /\ UNCHANGED <<batch, merkleTree, ret, vres, gres, cache, searchCache,
                   enableCache, cacheFile>>

\* One event of request i reaches its listener, before or after the call
\* has returned.
ProbeEvent(i, event) ==
    /\ urlCall.phase \in {"waiting", "returned"}
    /\ i \in 1..Len(urlCall.requests)
    /\ CanEmit(urlCall.requests[i], event)
    /\ urlCall' = [urlCall EXCEPT
                      !.requests[i] = Listener(urlCall.requests[i], event),
                      !.order = Settle(urlCall.order, urlCall.requests[i],
                                       Listener(urlCall.requests[i], event), i)]
    /\ UNCHANGED <<batch, merkleTree, ret, vres, gres, cache, searchCache,
                   enableCache, cacheFile>>

\* Promise.all resolves once every promise has, with the values in the order
\* of the array; checkURLValidity counts them and returns.
EndURLValidity ==
    /\ urlCall.phase = "waiting"
    /\ \A i \in 1..Len(urlCall.requests) : urlCall.requests[i].settled
    /\ urlCall' = [urlCall EXCEPT
                      !.phase = "returned",
                      !.returned =
                          checkURLValidity(Claim(TextPlain, AbsentProof, 0),
                                           Evidence(urlCall.results, FALSE),
                                           [i \in 1..Len(urlCall.requests) |->
                                               urlCall.requests[i].exists])]
    /\ UNCHANGED <<batch, merkleTree, ret, vres, gres, cache, searchCache,
                   enableCache, cacheFile>>

\* The caller takes the check result.
TakeURLValidity ==
    /\ urlCall.phase = "returned"
    /\ urlCall' = NoUrlCall
    /\ UNCHANGED <<batch, merkleTree, ret, vres, gres, cache, searchCache,
                   enableCache, cacheFile>>

NextProbes ==
    \/ \E results \in ProbeLists : BeginURLValidity(results)
    \/ \E i \in 1..3, event \in ProbeEvents : ProbeEvent(i, event)
    \/ EndURLValidity
    \/ TakeURLValidity

SpecProbes == InitVerifier /\ [][NextProbes]_vars

----------------------------------------------------------------------------
(* VerifiableClaude and ClaimVerifier.searchForEvidence *)

MaxClaims == 2
MaxVerifyCached == 1

\* new VerifiableClaude({ deterministic: true })
useDeterministicVerification == TRUE

DefaultModel == "claude-sonnet-4-20250514"

\* A JavaScript object used as a map: a function on the keys that are set.
Has(map, key) == key \in DOMAIN map

Put(map, key, value) ==
    [k \in DOMAIN map \cup {key} |-> IF k = key THEN value ELSE map[k]]

\* loadCache, for a cache file that holds what an earlier saveCache wrote:
\* nothing is read when caching is off.
loadCache(file) == IF ~enableCache THEN EmptyMap ELSE file

\* saveCache: the new contents of the cache file.  The JSON text stands as
\* the object it encodes; with caching off nothing is written.
saveCache(entries) == IF ~enableCache THEN cacheFile ELSE entries

\* getCacheKey: `${model}:${prompt}`
getCacheKey(prompt) == <<"generate", DefaultModel, prompt>>

\* `verify:${verificationMode}:${claim.text}:${JSON.stringify(context)}`:
\* the claim's merkleProof and merkleIndex are no part of the key.
verifyCacheKey(claim, context) ==
    <<"verify", IF useDeterministicVerification THEN "deterministic" ELSE "llm",
      claim.text, context>>

Context(userPrompt, merkleRoot) == [userPrompt |-> userPrompt, merkleRoot |-> merkleRoot]

QuestionWords == {"what", "who", "when", "where", "why", "how", "explain"}

\* extractSearchQuery.  The contexts of the model carry no subject, and the
\* claim texts are shorter than the 100 characters of substring(0, 100).
extractSearchQuery(claimText, context) ==
    IF ~IsUndefined(context.userPrompt) /\ Len(context.userPrompt) > 0
    THEN LET first == LowerTok(context.userPrompt[1])
             contextTerms == IF first[1] = "w" /\ first[2] \in QuestionWords
                             THEN Tail(context.userPrompt)
                             ELSE context.userPrompt
         IN contextTerms \o claimText
    ELSE IF Len(claimText) > 1 /\ LowerTok(claimText[1]) = Tok("w", "the")
    THEN Tail(claimText)
    ELSE claimText

\* The key of searchCache: query.toLowerCase()
searchCacheKey(claimText, context) == toLowerCase(extractSearchQuery(claimText, context))

\* searchForEvidence.  outcome is what the search API does when it is asked:
\* [failed, results].  Returns [evidence, searchCache'].
searchForEvidence(sc, claimText, context, outcome) ==
    LET cacheKey == searchCacheKey(claimText, context) IN
    IF Has(sc, cacheKey) THEN [evidence |-> sc[cacheKey], searchCache |-> sc]
    ELSE IF outcome.failed
    THEN [evidence |-> Evidence(<<>>, TRUE), searchCache |-> sc]
    ELSE [evidence |-> Evidence(outcome.results, FALSE),
          searchCache |-> Put(sc, cacheKey, Evidence(outcome.results, FALSE))]

\* claim.merkleProof && context.merkleRoot
Truthy(proof) == proof.kind \in {"array", "number", "object", "string"}

\* The same with a failed membership check changing the verdict only.
merkleTieIn_KeepsFraudProof(claim, context, evidence, checked) ==
    LET result == [checked EXCEPT !.evidence = evidence.results]
        leafHash == hashClaim(claim.text)
        proofValid == verifyProof(leafHash, claim.merkleProof, context.merkleRoot)
    IN IF checked.threw THEN [threw |-> TRUE, result |-> NoResult]
       ELSE IF Truthy(claim.merkleProof) /\ ~IsUndefined(context.merkleRoot)
       THEN IF proofValid.threw THEN [threw |-> TRUE, result |-> NoResult]
            ELSE IF proofValid.value
            THEN [threw |-> FALSE, result |-> [result EXCEPT !.merkleProofValid = "true"]]
            ELSE [threw |-> FALSE,
                  result |-> [result EXCEPT !.merkleProofValid = "false",
                                            !.verdict = "FRAUD_PROVEN"]]
       ELSE [threw |-> FALSE, result |-> result]

\* verify, "Add Merkle proof verification if available": checked is what
\* verifyClaim returned.  Returns [threw, result].
merkleTieIn(claim, context, evidence, checked) ==
    LET result == [checked EXCEPT !.evidence = evidence.results]
        leafHash == hashClaim(claim.text)
        proofValid == verifyProof(leafHash, claim.merkleProof, context.merkleRoot)
    IN IF checked.threw THEN [threw |-> TRUE, result |-> NoResult]
       ELSE IF Truthy(claim.merkleProof) /\ ~IsUndefined(context.merkleRoot)
       THEN IF proofValid.threw THEN [threw |-> TRUE, result |-> NoResult]
            ELSE IF proofValid.value
            THEN [threw |-> FALSE, result |-> [result EXCEPT !.merkleProofValid = "true"]]
            ELSE [threw |-> FALSE,
                  result |-> [result EXCEPT
                     !.merkleProofValid = "false",
                     !.verdict = "FRAUD_PROVEN",
                     !.fraudProof =
                         [NoFraudProof EXCEPT
                             !.present = TRUE,
                             !.reason = <<"Merkle proof invalid - claim was not in original commitment", 0, 0>>,
                             !.claimHash = leafHash,
                             !.expectedRoot = context.merkleRoot]]]
       ELSE [threw |-> FALSE, result |-> result]

\* The deterministic branch of verify, after the cache was missed.
verifyFresh(claim, context, evidence, probes, clock) ==
    merkleTieIn(claim, context, evidence, verifyClaim(claim, evidence, probes, clock))

SpecTexts == {TextPlain, TextEntity}

Prompt == <<Tok("w", "who"), Tok("w", "rules"), Tok("W", "Rome")>>

GenBatches == SeqsUpTo(SpecTexts, MaxClaims)

SearchOutcomes ==
    {[failed |-> TRUE, results |-> <<>>],
     [failed |-> FALSE, results |-> <<>>],
     [failed |-> FALSE, results |-> <<ItemWiki>>]}

VerifyTampers == {"none", "undefined", "extra", "number"}

VerifyEntries == {k \in DOMAIN cache : k[1] = "verify"}

Init ==
    /\ Construct(<<>>)
    /\ ret = NoRet
    /\ vres = NoVres
    /\ gres = NoGres
    /\ cache = EmptyMap
    /\ searchCache = EmptyMap
    /\ urlCall = NoUrlCall
    /\ enableCache = TRUE
    /\ cacheFile = EmptyMap

\* buildResult with a commitment made for an empty batch as well.
buildResult_AlwaysCommits(prompt, claimTexts, tree) ==
    [op |-> "generate", prompt |-> prompt,
     claims |-> [i \in 1..Len(claimTexts) |->
                    Claim(claimTexts[i], ArrayOf(getProof(tree, i - 1).proof), i - 1)],
     commitment |-> [present |-> TRUE, root |-> getRoot(tree),
                     claimCount |-> Len(claimTexts)],
     metadata |-> [cached |-> FALSE, verificationMode |-> "deterministic"]]

\* buildResult with merkleIndex counted from 1.
buildResult_OneBasedIndex(prompt, claimTexts, tree) ==
    [op |-> "generate", prompt |-> prompt,
     claims |-> [i \in 1..Len(claimTexts) |->
                    Claim(claimTexts[i], ArrayOf(getProof(tree, i - 1).proof), i)],
     commitment |-> IF Len(claimTexts) > 0
                    THEN [present |-> TRUE, root |-> getRoot(tree),
                          claimCount |-> Len(claimTexts)]
                    ELSE NoCommitment,
     metadata |-> [cached |-> FALSE, verificationMode |-> "deterministic"]]

\* generate, steps 4 and 5: the commitment, the proofs and the result.
buildResult(prompt, claimTexts, tree) ==
    [op |-> "generate", prompt |-> prompt,
     claims |-> [i \in 1..Len(claimTexts) |->
                    Claim(claimTexts[i], ArrayOf(getProof(tree, i - 1).proof), i - 1)],
     commitment |-> IF Len(claimTexts) > 0
                    THEN [present |-> TRUE, root |-> getRoot(tree),
                          claimCount |-> Len(claimTexts)]
                    ELSE NoCommitment,
     metadata |-> [cached |-> FALSE, verificationMode |-> "deterministic"]]

\* generate, step 6, storing the result as it is returned.
StoreGenerated_KeepsFlag(cacheKey, result) ==
    /\ gres' = result
    /\ cache' = Put(cache, cacheKey, result)
    /\ cacheFile' = saveCache(Put(cache, cacheKey, result))

\* generate, step 6: the result is stored marked cached, and returned.
StoreGenerated(cacheKey, result) ==
    /\ gres' = result
    /\ cache' = Put(cache, cacheKey, [result EXCEPT !.metadata.cached = TRUE])
    /\ cacheFile' = saveCache(Put(cache, cacheKey, [result EXCEPT !.metadata.cached = TRUE]))

\* generate(prompt): claimTexts is what the model's answer and the claim
\* detector come to when they are called.  A tree is built for n > 0 only.
Generate(prompt, claimTexts) ==
    /\ IF Has(cache, getCacheKey(prompt))
       THEN /\ gres' = cache[getCacheKey(prompt)]
            /\ UNCHANGED <<batch, merkleTree, cache, cacheFile>>
       ELSE /\ StoreGenerated(getCacheKey(prompt),
                              buildResult(prompt, claimTexts, NewMerkleTree(claimTexts)))
            /\ IF Len(claimTexts) > 0
               THEN /\ batch' = claimTexts
                    /\ merkleTree' = NewMerkleTree(claimTexts)
               ELSE UNCHANGED <<batch, merkleTree>>
    /\ UNCHANGED <<ret, vres, searchCache, urlCall, enableCache>>

\* verify after a cache miss: the result is stored unless the call rejected.
StoreVerified(claim, context, searched, probes, clock, fresh) ==
    /\ vres' = [NoVres EXCEPT !.op = "verify", !.claim = claim, !.context = context,
                              !.evidence = searched.evidence, !.probes = probes,
                              !.clock = clock,
                              !.threw = fresh.threw, !.result = fresh.result]
    /\ searchCache' = searched.searchCache
    /\ cache' = IF fresh.threw THEN cache
                ELSE Put(cache, verifyCacheKey(claim, context), fresh.result)
    /\ cacheFile' = IF fresh.threw THEN cacheFile
                    ELSE saveCache(Put(cache, verifyCacheKey(claim, context), fresh.result))

VerifyMiss(claim, context, searched, probes, clock) ==
    StoreVerified(claim, context, searched, probes, clock,
                  verifyFresh(claim, context, searched.evidence, probes, clock))

\* verify(claim, context): outcome is what the search API does if it is
\* asked, probes what the HEAD requests come to if they are made.
Verify(claim, context, outcome, probes, clock) ==
    /\ IF Has(cache, verifyCacheKey(claim, context))
       THEN /\ vres' = [NoVres EXCEPT !.op = "verify", !.claim = claim, !.context = context,
                                      !.cached = TRUE,
                                      !.result = cache[verifyCacheKey(claim, context)]]
            /\ UNCHANGED <<cache, searchCache, cacheFile>>
       ELSE /\ Cardinality(VerifyEntries) < MaxVerifyCached
            /\ VerifyMiss(claim, context,
                          searchForEvidence(searchCache, claim.text, context, outcome),
                          probes, clock)
    /\ UNCHANGED <<batch, merkleTree, ret, gres, urlCall, enableCache>>

clearCache ==
    /\ cache' = EmptyMap
    /\ cacheFile' = saveCache(EmptyMap)
    /\ UNCHANGED <<batch, merkleTree, ret, vres, gres, searchCache, urlCall, enableCache>>

\* The claims a client can send to verify: a claim of the response it holds,
\* with its proof as returned or altered, under its own or another text.
Challenges ==
    {Claim(text, Tamper(gres.claims[i].merkleProof.steps, kind, 0), i - 1) :
        i \in 1..Len(gres.claims), text \in SpecTexts, kind \in VerifyTampers}

Contexts ==
    {Context(Prompt, root) : root \in {Undefined, gres.commitment.root}}

Next ==
    \/ Answered /\ \E claimTexts \in GenBatches : Generate(Prompt, claimTexts)
    \/ Answered /\ \E claim \in Challenges, context \in Contexts :
          \E outcome \in SearchOutcomes, answered \in BOOLEAN, clock \in Clock :
              Verify(claim, context, outcome, <<answered, answered, answered>>, clock)
    \/ Answered /\ clearCache
    \/ TakeResult

Spec == Init /\ [][Next]_vars

\* The facade together with calls on the tree it committed to: a holder of
\* the tree reads its root, proofs and leaf hashes between the calls of
\* generate and verify, and challenges the claims as generate returned them.
NextCommit ==
    \/ Idle /\ Answered /\ \E claimTexts \in GenBatches : Generate(Prompt, claimTexts)
    \/ Idle /\ Answered /\ \E i \in 1..Len(gres.claims), answered \in BOOLEAN :
          Verify(gres.claims[i], Context(Prompt, gres.commitment.root),
                 [failed |-> FALSE, results |-> <<ItemWiki>>],
                 <<answered, answered, answered>>, [started |-> 1, proved |-> 1])
    \/ Idle /\ Answered /\ clearCache
    \/ Idle /\ Answered /\ GetRoot
    \/ Idle /\ Answered /\ \E index \in 0..Len(merkleTree.leaves) : GetProof(index)
    \/ Idle /\ Answered /\ \E index \in 0..Len(merkleTree.leaves) : GetLeafHash(index)
    \/ Idle /\ Answered /\ \E index \in Indices, kind \in {"none", "extra"} :
          VerifyProof(index, kind, 0)
    \/ Return
    \/ TakeResult

SpecCommit == Init /\ [][NextCommit]_vars

\* new VerifiableClaude({ cache: ..., deterministic: true }), with caching on
\* or off, where no cache file exists yet.
InitChallenge ==
    /\ Construct(<<>>)
    /\ ret = NoRet
    /\ vres = NoVres
    /\ gres = NoGres
    /\ enableCache \in BOOLEAN
    /\ cacheFile = EmptyMap
    /\ cache = loadCache(cacheFile)
    /\ searchCache = EmptyMap
    /\ urlCall = NoUrlCall

\* The first claim of the response the client holds, under its own text,
\* with its proof as returned or altered.
OwnChallenges ==
    {Claim(gres.claims[i].text, Tamper(gres.claims[i].merkleProof.steps, kind, 0), i - 1) :
        i \in 1..Min(1, Len(gres.claims)), kind \in VerifyTampers \ {"undefined"}}

\* One instance answering generate and the challenges of the first claim of
\* each response against the root it committed to; the search fails, finds
\* nothing or finds a source, whose url is reachable.
NextChallenge ==
    \/ Answered /\ \E claimTexts \in GenBatches : Generate(Prompt, claimTexts)
    \/ Answered /\ \E claim \in OwnChallenges, outcome \in SearchOutcomes :
          Verify(claim, Context(Prompt, gres.commitment.root), outcome,
                 <<TRUE, TRUE, TRUE>>, [started |-> 1, proved |-> 1])
    \/ Answered /\ clearCache
    \/ TakeResult

SpecChallenge == InitChallenge /\ [][NextChallenge]_vars

----------------------------------------------------------------------------
(* Properties of the Merkle commitment, under SpecMerkle *)

OutOfRange(index) == index < 0 \/ index >= Len(merkleTree.leaves)

\* C1: for every batch of n >= 1 texts and every index i, the proof that
\* getProof(i) returns verifies against the root of the tree: verifyProof(
\* hash(text_i), getProof(i), getRoot()) is true, odd level sizes included.
C1_EveryProofVerifies ==
    (ret.op = "verifyProof" /\ ret.tamper = "none") => (~ret.threw /\ ret.value)

MalformedKinds ==
    {"drop", "extra", "corrupt", "nohash", "noposition", "nullstep", "numberstep",
     "extranull", "null", "undefined", "number", "object", "string"}

\* C7: verifyProof returns false and never throws for every malformed proof:
\* a wrong number of steps, a corrupted sibling hash, a step that lacks its
\* hash or position or is not an object, a proof that is no sequence of steps.
C7_MalformedProofIsFalse ==
    (ret.op = "verifyProof" /\ ret.tamper \in MalformedKinds)
        => (~ret.threw /\ ret.value = FALSE)

\* The hash the replay has reached before it reads step k of proof p.
RunningHash(leafHash, p, k) == ReplayFrom(leafHash, SubSeq(p, 1, k - 1), 1).hash

\* C8 as stated: flipping the position tag of any single step of a proof that
\* getProof produced makes verifyProof return false, without throwing.
C8_FlippedTagIsRejected ==
    (ret.op = "verifyProof" /\ ret.tamper = "flip")
        => (~ret.threw /\ ret.value = FALSE)

\* C8 as amended: verifyProof does not throw on a proof with one flipped
\* position tag, and it returns true exactly when the flipped step's sibling
\* hash equals the hash replayed up to that step and the unflipped proof
\* verifies; it returns false in every other case.
C8_FlippedTagRejectedUnlessTwin ==
    (ret.op = "verifyProof" /\ ret.tamper = "flip")
        => LET leafHash == hash(batch[ret.index + 1])
               twin == ret.proof[ret.k].hash = RunningHash(leafHash, ret.proof, ret.k)
               unflipped == verifyProof(leafHash, ArrayOf(ret.proof), getRoot(merkleTree))
           IN /\ ~ret.threw
              /\ ret.value = (twin /\ unflipped.value)

\* A flip of the second step of a verifying two-step proof was rejected.
C8_Witness ==
    /\ ret.op = "verifyProof" /\ ret.tamper = "flip" /\ ret.k = 2
    /\ ret.value = FALSE
    /\ verifyProof(hash(batch[ret.index + 1]), ArrayOf(ret.proof),
                   getRoot(merkleTree)).value

ReplacementTexts == LeafTexts \cup {TextDate}

Swapped(b, i, j) == [b EXCEPT ![i] = b[j], ![j] = b[i]]

\* C9: with an injective hash, replacing the text of any single claim of a
\* batch by a different text, or exchanging two claims that have different
\* texts, yields a different root, at every position and for every n >= 1.
C9_TamperChangesRoot ==
    /\ \A i \in 1..Len(batch), t \in ReplacementTexts :
          t # batch[i]
              => getRoot(NewMerkleTree([batch EXCEPT ![i] = t])) # getRoot(merkleTree)
    /\ \A i \in 1..Len(batch), j \in 1..Len(batch) :
          batch[i] # batch[j]
              => getRoot(NewMerkleTree(Swapped(batch, i, j))) # getRoot(merkleTree)

\* A tree of three leaves (the last one paired with itself) whose root was read.
C9_Witness ==
    /\ Len(batch) = 3 /\ batch[3] # batch[2]
    /\ ret.op = "getRoot" /\ ret.hash = merkleTree.tree[3][1]

\* C10: getProof(index) raises 'Leaf index out of bounds' and returns no
\* proof for every index outside 0..n-1, negative indices included.
C10_OutOfRangeIsRejected ==
    (ret.op = "getProof" /\ Len(merkleTree.leaves) >= 1 /\ OutOfRange(ret.index))
        => (ret.threw /\ ret.error = "Leaf index out of bounds" /\ ret.proof = <<>>)

\* C11: for a batch of exactly one claim text the root is hash(text_0),
\* getProof(0) is the empty sequence and verifyProof(hash(text_0), [], root)
\* is true.
C11_SingleLeafTree ==
    Len(batch) = 1
        => /\ getRoot(merkleTree) = hash(batch[1])
           /\ ret.op = "getRoot" => ret.hash = hash(batch[1])
           /\ (ret.op = "getProof" /\ ret.index = 0) => (~ret.threw /\ ret.proof = <<>>)
           /\ (ret.op = "verifyProof" /\ ret.tamper = "none")
                  => (ret.arg = ArrayOf(<<>>) /\ ~ret.threw /\ ret.value)

\* The empty proof of the only leaf has been verified against the root.
C11_Witness ==
    /\ Len(batch) = 1
    /\ ret.op = "verifyProof" /\ ret.tamper = "none"
    /\ ret.arg = ArrayOf(<<>>) /\ ret.value

\* The levels below the root, numbered from 0 at the leaves.
Height == Len(merkleTree.tree) - 1

Level(l) == merkleTree.tree[l + 1]

RECURSIVE Pow2(_)
Pow2(l) == IF l = 0 THEN 1 ELSE 2 * Pow2(l - 1)

RECURSIVE CeilLog2(_)
CeilLog2(n) == IF n <= 1 THEN 0 ELSE 1 + CeilLog2((n + 1) \div 2)

\* The index, at level l, of the node on the path from leaf i to the root.
NodeAt(i, l) == i \div Pow2(l)

\* That node is the last node of an odd-sized level: the builder pairs it
\* with itself.
IsSelfPaired(i, l) == NodeAt(i, l) = Len(Level(l)) - 1 /\ Len(Level(l)) % 2 = 1

SiblingLevels(i) == {l \in 0..(Height - 1) : ~IsSelfPaired(i, l)}

\* The level the k-th step of the proof of leaf i belongs to.
LevelOfStep(i, k) ==
    CHOOSE l \in SiblingLevels(i) : Cardinality({m \in SiblingLevels(i) : m < l}) = k - 1

\* The sibling of the node on i's path at level l, where it has one.
SiblingAt(i, l) ==
    IF NodeAt(i, l) % 2 = 1 THEN Level(l)[NodeAt(i, l)] ELSE Level(l)[NodeAt(i, l) + 2]

\* C12: every step of a proof records the sibling of the node on the leaf's
\* path with its side, 'left' iff the node's index at that level is odd, in
\* leaf-to-root order; for 4 leaves the proof of index 2 is [L3 right,
\* hash(L0 || L1) left]; every parent is hash(left || right).
C12_StepsRecordSiblingAndSide ==
    /\ \A l \in 1..Height : \A k \in 1..Len(Level(l)) :
          Level(l)[k] = hash(Level(l - 1)[2 * k - 1] \o
                             (IF 2 * k <= Len(Level(l - 1)) THEN Level(l - 1)[2 * k]
                              ELSE Level(l - 1)[2 * k - 1]))
    /\ (ret.op = "getProof" /\ ret.index \in Indices)
          => /\ ~ret.threw
             /\ Len(ret.proof) = Cardinality(SiblingLevels(ret.index))
             /\ \A k \in 1..Len(ret.proof) :
                   LET l == LevelOfStep(ret.index, k) IN
                   /\ ret.proof[k].position =
                          (IF NodeAt(ret.index, l) % 2 = 1 THEN "left" ELSE "right")
                   /\ ret.proof[k].hash = SiblingAt(ret.index, l)
             /\ (Len(batch) = 4 /\ ret.index = 2)
                   => ret.proof =
                        <<[kind |-> "object", hash |-> hash(batch[4]), position |-> "right"],
                          [kind |-> "object",
                           hash |-> hash(hash(batch[1]) \o hash(batch[2])),
                           position |-> "left"]>>

\* The proof of index 2 of four leaves has been returned: right, then left.
C12_Witness ==
    /\ Len(batch) = 4
    /\ ret.op = "getProof" /\ ret.index = 2 /\ Len(ret.proof) = 2
    /\ ret.proof[1].position = "right" /\ ret.proof[2].position = "left"

\* C13: for 3 leaves the builder pairs (L0,L1) and (L2,L2), and the proof of
\* index 2 has two steps: a level-0 step whose sibling hash is L2 itself, then
\* the level-1 step with sibling hash(L0 || L1).
C13_SelfPairedLeafHasItsStep ==
    Len(batch) = 3
        => /\ Level(1) = <<hash(Level(0)[1] \o Level(0)[2]), hash(Level(0)[3] \o Level(0)[3])>>
           /\ (ret.op = "getProof" /\ ret.index = 2)
                 => /\ Len(ret.proof) = 2
                    /\ ret.proof[1].hash = hash(batch[3])
                    /\ ret.proof[2].hash = hash(hash(batch[1]) \o hash(batch[2]))

\* C14: getProof(i) has exactly one step for each level below the root at
\* which the node on i's path has a sibling and none for a level at which it
\* is the last node of an odd-sized level; the proof length is ceil(log2 n)
\* minus the number of such levels and never exceeds ceil(log2 n).
C14_NoStepForSelfPairedLevel ==
    (ret.op = "getProof" /\ ret.index \in Indices)
        => LET i == ret.index
               selfPaired == {l \in 0..(Height - 1) : IsSelfPaired(i, l)}
           IN /\ ~ret.threw
              /\ Height = CeilLog2(Len(batch))
              /\ Len(ret.proof) = CeilLog2(Len(batch)) - Cardinality(selfPaired)
              /\ Len(ret.proof) <= CeilLog2(Len(batch))
              /\ \A l \in selfPaired :
                    Level(l + 1)[NodeAt(i, l + 1) + 1] =
                        hash(Level(l)[NodeAt(i, l) + 1] \o Level(l)[NodeAt(i, l) + 1])
              /\ \A k \in 1..Len(ret.proof) :
                    ret.proof[k].hash = SiblingAt(i, LevelOfStep(i, k))

\* The proof of the self-paired third leaf of three: one step, not two.
C14_Witness ==
    /\ Len(batch) = 3
    /\ ret.op = "getProof" /\ ret.index = 2
    /\ IsSelfPaired(2, 0)
    /\ Len(ret.proof) = 1 /\ CeilLog2(3) = 2

\* C27: with an injective hash, two batches with different claim sequences
\* never have the same root; appending a copy of the last claim to a batch
\* of odd length changes the root.
C27_RootIdentifiesBatch ==
    \A other \in Batches :
        other # batch => getRoot(NewMerkleTree(other)) # getRoot(merkleTree)

\* C28: with an injective hash, verifyProof(h, proof, root) returns true only
\* if h is the hash of one of the batch's claim texts: neither an interior
\* node's hash nor the root with an empty proof is accepted as a leaf.
C28_OnlyLeavesAreAccepted ==
    (ret.op = "verifyProofOfText" /\ ~ret.threw /\ ret.value)
        => \E i \in 1..Len(batch) : ret.hash = hash(batch[i])

----------------------------------------------------------------------------
(* Properties of verifyClaim, under SpecVerifier *)

Res == vres.result

\* verifyClaim has returned a result (it did not reject).
Completed == vres.op = "verifyClaim" /\ ~Res.threw

CriticalFailed(i) == Res.checks[i].critical /\ ~Res.checks[i].passed

PassedCount == Cardinality({i \in 1..Len(Res.checks) : Res.checks[i].passed})

CheckOrder ==
    <<"URL Validity", "Quote Exact Match", "Entity Consistency", "Source Credibility",
      "Temporal Consistency">>

\* C3: if any of the five checks is critical and failed, the verdict is
\* FRAUD_PROVEN with confidence 10, whatever the other checks did, and the
\* fraud proof is built from the first failed critical check in the fixed
\* order URL Validity, Quote Exact Match, ...
C3_CriticalFailureIsFraud ==
    (Completed /\ \E i \in 1..5 : CriticalFailed(i))
        => LET first == CHOOSE i \in 1..5 :
                            CriticalFailed(i) /\ \A j \in 1..(i - 1) : ~CriticalFailed(j)
           IN /\ [i \in 1..5 |-> Res.checks[i].name] = CheckOrder
              /\ Res.verdict = "FRAUD_PROVEN"
              /\ Res.confidence = 10
              /\ Res.fraudProof.present
              /\ Res.fraudProof.failedCheck = CheckOrder[first]
              /\ Res.fraudProof.reason = Res.checks[first].reason
              /\ Res.fraudProof.evidence = Res.checks[first].evidence

\* Four checks passed, the critical URL Validity failed: fraud is proven.
C3_Witness ==
    /\ Completed
    /\ PassedCount = 4
    /\ CriticalFailed(1)
    /\ Res.verdict = "FRAUD_PROVEN"
    /\ Res.fraudProof.failedCheck = "URL Validity"

\* C4: when no critical check failed, the verdict is VERIFIED iff
\* passedCount/totalCount >= 0.6 (3 of 5) and UNCERTAIN iff it is in
\* [0.3, 0.6) (2 of 5); then confidence is round(passedCount/totalCount * 100),
\* which is 20 * passedCount for five checks, and no fraud proof is attached.
C4_ThresholdVerdicts ==
    (Completed /\ \A i \in 1..5 : ~CriticalFailed(i))
        => /\ Res.verdict = "VERIFIED" <=> PassedCount >= 3
           /\ Res.verdict = "UNCERTAIN" <=> PassedCount = 2
           /\ Res.verdict \in {"VERIFIED", "UNCERTAIN"}
                  => /\ Res.confidence = 20 * PassedCount
                     /\ ~Res.fraudProof.present

\* Exactly 3 of 5 checks passed, none of the failed ones critical: VERIFIED, 60.
C4_Witness ==
    /\ Completed
    /\ \A i \in 1..5 : ~CriticalFailed(i)
    /\ PassedCount = 3
    /\ Res.verdict = "VERIFIED" /\ Res.confidence = 60

\* Exactly 2 of 5 checks passed, none of the failed ones critical: UNCERTAIN, 40.
C4_WitnessUncertain ==
    /\ Completed
    /\ \A i \in 1..5 : ~CriticalFailed(i)
    /\ PassedCount = 2
    /\ Res.verdict = "UNCERTAIN" /\ Res.confidence = 40

\* The case C5 is about: no critical check failed and fewer than 30% passed.
C5_Case == Completed /\ (\A i \in 1..5 : ~CriticalFailed(i)) /\ 10 * PassedCount < 3 * 5

\* verifyClaim never gets there: URL Validity is always critical and Quote
\* Exact Match is critical whenever it fails, so without a critical failure
\* both have passed.
C5_CaseNeverHappens == ~C5_Case

NoTokens(text) ==
    /\ Len(extractQuotes(text)) = 0
    /\ Len(extractEntities(text)) = 0
    /\ Len(extractDates(text)) = 0

\* C6: for an empty evidence set and a claim text with no quotes, entities or
\* dates, the four non-URL checks pass, URL Validity fails as a critical
\* check and the verdict is FRAUD_PROVEN.
C6_EmptyEvidenceVacuousPasses ==
    (vres.op = "verifyClaim" /\ Len(vres.evidence.results) = 0 /\ NoTokens(vres.claim.text))
        => /\ ~Res.threw
           /\ \A i \in 2..5 : Res.checks[i].passed
           /\ ~Res.checks[1].passed /\ Res.checks[1].critical
           /\ Res.verdict = "FRAUD_PROVEN"

\* C16: the verdict of a deterministic verification depends on nothing but
\* claim.text and the evidence set: a second verification of the same text
\* against the same evidence, whatever the clock reads and whatever the URL
\* reachability probes come to, ends the same way, with the same verdict and
\* the same pass/fail value of each check.
C16_VerdictDependsOnTextAndEvidenceOnly ==
    vres.op = "verifyClaim"
        => \A probes \in ProbeOutcomes(vres.evidence.results), clock \in Clock :
              LET again == verifyClaim(vres.claim, vres.evidence, probes, clock)
              IN /\ again.threw = Res.threw
                 /\ again.verdict = Res.verdict
                 /\ Len(again.checks) = Len(Res.checks)
                 /\ \A i \in 1..Len(Res.checks) :
                       again.checks[i].passed = Res.checks[i].passed

\* The check the fraud proof of the result names.
ProvedCheck == CHOOSE i \in 1..5 : Res.checks[i].name = Res.fraudProof.failedCheck

\* C17: proofHash is a function of (claim.text, failedCheck.name,
\* failedCheck.evidence) only: an independent call with an equal triple, at
\* any other time, for a claim object that differs outside its text and a
\* check that differs outside its name and evidence, returns the same
\* proofHash; claimHash is hash(claim.text), failedCheck the check's name and
\* reason the check's reason.
C17_ProofHashIsFunctionOfTriple ==
    (Completed /\ Res.fraudProof.present)
        => LET fp == Res.fraudProof
               check == Res.checks[ProvedCheck]
               sameTriple == [check EXCEPT !.reason = <<"another reason", 0, 0>>,
                                           !.passed = ~@, !.critical = ~@]
           IN /\ fp.claimHash = hash(vres.claim.text)
              /\ fp.failedCheck = check.name
              /\ fp.reason = check.reason
              /\ fp.evidence = check.evidence
              /\ fp.timestamp = vres.clock.proved
              /\ \A now \in 1..MaxClock :
                    generateFraudProof(Claim(vres.claim.text, ArrayOf(<<>>), 1),
                                       sameTriple, now).proofHash = fp.proofHash

\* A fraud proof was built at a later tick than the one the call started at.
C17_Witness ==
    /\ Completed /\ Res.fraudProof.present
    /\ Res.timestamp = 1 /\ Res.fraudProof.timestamp = 2
    /\ Res.fraudProof.proofHash =
           generateFraudProof(vres.claim, Res.checks[ProvedCheck], 1).proofHash

\* C19: with an empty evidence set each of Quote Exact Match, Entity
\* Consistency and Temporal Consistency passes iff the claim text yields no
\* token of its kind and fails as soon as one exists; a failed Quote Exact
\* Match is then a critical failure.
C19_EmptyEvidenceTokenChecks ==
    (vres.op = "verifyClaim" /\ Len(vres.evidence.results) = 0)
        => /\ ~Res.threw
           /\ Res.checks[2].passed <=> Len(extractQuotes(vres.claim.text)) = 0
           /\ Res.checks[3].passed <=> Len(extractEntities(vres.claim.text)) = 0
           /\ Res.checks[5].passed <=> Len(extractDates(vres.claim.text)) = 0
           /\ ~Res.checks[2].passed => Res.checks[2].critical
           /\ [i \in {2, 3, 5} |-> Res.checks[i].name] =
                  [i \in {2, 3, 5} |-> CheckOrder[i]]

\* No evidence, a text with an entity and a date and no quote: Entity and
\* Temporal Consistency failed, Quote Exact Match passed.
C19_Witness ==
    /\ vres.op = "verifyClaim" /\ Len(vres.evidence.results) = 0
    /\ vres.claim.text = TextBoth
    /\ Res.checks[2].passed /\ ~Res.checks[3].passed /\ ~Res.checks[5].passed

\* No evidence and a quoted text: Quote Exact Match failed critically.
C19_WitnessQuote ==
    /\ vres.op = "verifyClaim" /\ Len(vres.evidence.results) = 0
    /\ vres.claim.text = TextQuote
    /\ ~Res.checks[2].passed /\ Res.checks[2].critical

\* C20: verifyClaim always returns a completed result, five check results and
\* a verdict, and never raises, whatever evidence the retrieval step hands
\* over: an empty result list, or items whose snippet, title or url is missing.
C20_VerifyClaimAlwaysCompletes ==
    vres.op = "verifyClaim"
        => /\ ~Res.threw
           /\ Len(Res.checks) = 5
           /\ Res.verdict \in {"VERIFIED", "UNCERTAIN", "FRAUD_PROVEN"}

\* C24: whenever no critical check of verifyClaim has failed, URL Validity
\* and Quote Exact Match have passed, so at least 2 of the 5 checks have and
\* the "most checks failed" branch is not taken; the verdict is FRAUD_PROVEN
\* only when a critical check failed, and a fraud proof names a check that
\* is critical and failed.
C24_FraudOnlyByCriticalFailure ==
    Completed
        => /\ (\A i \in 1..5 : ~CriticalFailed(i))
                  => /\ Res.checks[1].passed /\ Res.checks[2].passed
                     /\ PassedCount >= 2
                     /\ Res.verdict # "FRAUD_PROVEN"
           /\ Res.reasoning # "Most checks failed"
           /\ Res.verdict = "FRAUD_PROVEN" => \E i \in 1..5 : CriticalFailed(i)
           /\ Res.fraudProof.present
                  => \E i \in 1..5 : /\ CriticalFailed(i)
                                     /\ Res.fraudProof.failedCheck = Res.checks[i].name

\* URL Validity and Quote Exact Match passed and the three other checks
\* failed, none of them critical: the verdict is UNCERTAIN, without a proof.
C24_Witness ==
    /\ Completed
    /\ Res.checks[1].passed /\ Res.checks[2].passed
    /\ \A i \in 3..5 : ~Res.checks[i].passed /\ ~Res.checks[i].critical
    /\ Res.verdict = "UNCERTAIN"
    /\ ~Res.fraudProof.present

----------------------------------------------------------------------------
(* Properties of VerifiableClaude.verify, under Spec *)

\* verify returned, for a claim that carries a merkleProof and a context that
\* carries a merkleRoot, although the proof does not verify against that root.
InvalidProofAnswered ==
    /\ vres.op = "verify" /\ ~vres.threw
    /\ Truthy(vres.claim.merkleProof)
    /\ ~IsUndefined(vres.context.merkleRoot)
    /\ LET proofValid == verifyProof(hashClaim(vres.claim.text), vres.claim.merkleProof,
                                     vres.context.merkleRoot)
       IN ~proofValid.threw /\ ~proofValid.value

\* C2: in deterministic mode, when verify is called with a claim that carries
\* a merkleProof and a context that carries a merkleRoot and the proof does
\* not verify, the returned verdict is FRAUD_PROVEN with merkleProofValid =
\* false and a fraud proof whose reason says the claim was not in the original
\* commitment, whatever the five checks concluded.
C2_InvalidProofIsFraud ==
    InvalidProofAnswered
        => /\ vres.result.verdict = "FRAUD_PROVEN"
           /\ vres.result.merkleProofValid = "false"
           /\ vres.result.fraudProof.present
           /\ vres.result.fraudProof.reason[1] =
                  "Merkle proof invalid - claim was not in original commitment"

\* The same, for the calls that did not find their answer in the cache: there
\* the override of lines 628-642 is always applied.
InvalidProofIsFraudWhenFresh ==
    (InvalidProofAnswered /\ ~vres.cached) => C2_InvalidProofIsFraud

----------------------------------------------------------------------------
(* Properties of VerifiableClaude.generate, under Spec and SpecCommit *)

\* C15: when claim detection yields zero claims, generate produces no
\* commitment (commitment is null), builds no Merkle tree, attaches no proof
\* to anything and completes with an empty claims list.
C15_NoClaimsNoCommitment ==
    /\ [](gres.op = "generate" /\ Len(gres.claims) = 0 => gres.commitment = NoCommitment)
    /\ [][(gres' # gres /\ gres'.op = "generate" /\ Len(gres'.claims) = 0)
              => UNCHANGED <<batch, merkleTree>>]_vars

\* generate has answered for the first time, with no claims and no commitment.
C15_Witness ==
    /\ gres.op = "generate" /\ gres.claims = <<>>
    /\ ~gres.metadata.cached
    /\ ~gres.commitment.present
    /\ merkleTree.leaves = <<>>

\* What generate returned agrees with the tree it built.
CommitmentMatchesTree ==
    gres.commitment.present
        => /\ merkleTree = NewMerkleTree(batch)
           /\ gres.commitment.root = getRoot(merkleTree)
           /\ gres.commitment.claimCount = Len(merkleTree.leaves)
           /\ Len(gres.claims) = Len(batch)
           /\ \A i \in 1..Len(gres.claims) :
                 /\ gres.claims[i].text = batch[i]
                 /\ gres.claims[i].merkleIndex = i - 1
                 /\ gres.claims[i].merkleProof = ArrayOf(getProof(merkleTree, i - 1).proof)

\* C18: the commitment's claimCount is the number of leaves of the tree whose
\* root it carries, each claim's merkleIndex is its position and its
\* merkleProof is getProof(merkleIndex); getRoot, getProof, getLeafHash,
\* verifyProof and verify leave the tree as it is, so the root read later is
\* the root computed at construction.
C18_CommitmentIsStable ==
    /\ []CommitmentMatchesTree
    /\ [](ret.op = "getRoot" => ret.hash = getRoot(NewMerkleTree(batch)))
    /\ [][(ret' # ret \/ vres' # vres) => UNCHANGED <<batch, merkleTree>>]_vars

\* After a verify was answered and stored, the root of a two-leaf commitment
\* is read and is the committed root.
C18_Witness ==
    /\ gres.commitment.present /\ gres.commitment.claimCount = 2
    /\ VerifyEntries # {}
    /\ ret.op = "getRoot" /\ ret.hash = gres.commitment.root

----------------------------------------------------------------------------
(* Properties of checkURLValidity with its requests in flight, under SpecProbes *)

\* The request's first event was a response with a status of 200..399.
FirstOutcome(req) ==
    req.sent /\ Len(req.events) > 0 /\ req.events[1] \in {"status2xx", "status3xx"}

Reached == {i \in 1..Len(urlCall.requests) : FirstOutcome(urlCall.requests[i])}

----------------------------------------------------------------------------
(* Properties of the generate cache, under SpecCommit *)

\* C22: a generate whose prompt and model have a stored result returns that
\* result, marked cached, whatever the model and the claim detector would
\* answer, and leaves the cache and the tree alone; a generate that finds
\* none, as is the case after clearCache, returns a result marked not cached
\* and stores it marked cached.
C22_GenerateServesStoredResult ==
    [][gres' # gres =>
          IF Has(cache, getCacheKey(Prompt))
          THEN /\ gres' = cache[getCacheKey(Prompt)]
               /\ gres'.metadata.cached
               /\ UNCHANGED <<cache, batch, merkleTree>>
          ELSE /\ ~gres'.metadata.cached
               /\ Has(cache', getCacheKey(Prompt))
               /\ cache'[getCacheKey(Prompt)] = [gres' EXCEPT !.metadata.cached = TRUE]]_vars

\* A second generate has returned the stored result of two claims, and the
\* cache was cleared after it.
C22_Witness ==
    /\ gres.op = "generate"
    /\ gres.metadata.cached
    /\ Len(gres.claims) = 2
    /\ gres.commitment.root = merkleTree.root
    /\ ~Has(cache, getCacheKey(Prompt))

----------------------------------------------------------------------------
(* Properties of one instance's caches, under SpecChallenge *)

\* C23: an instance constructed with cache: false never serves a stored
\* result: no generate returns a result marked cached and no verify answers
\* from the cache, also for a prompt, or a claim and context, it has
\* processed before.
C23_CacheOffNeverServesStored ==
    ~enableCache => /\ gres.op = "generate" => ~gres.metadata.cached
                    /\ vres.op = "verify" => ~vres.cached

\* verify has returned a result.
Verified == vres.op = "verify" /\ ~vres.threw

\* C25: every result of a deterministic verify whose verdict is FRAUD_PROVEN
\* has confidence 10, and every result whose confidence is above 10 has the
\* verdict VERIFIED or UNCERTAIN, also when the verdict was forced by a
\* failed Merkle membership check after the checks had passed.
C25_FraudProvenHasConfidenceTen ==
    Verified
        => /\ vres.result.verdict = "FRAUD_PROVEN" => vres.result.confidence = 10
           /\ vres.result.confidence > 10 => vres.result.verdict \in {"VERIFIED", "UNCERTAIN"}

\* C26: in every result a deterministic verify returns, a fraud proof is
\* present iff the verdict is FRAUD_PROVEN, and a present fraud proof's
\* claimHash is hash(claim.text) of the claim that was verified.
C26_FraudProofIffFraudProven ==
    Verified
        => /\ vres.result.fraudProof.present <=> vres.result.verdict = "FRAUD_PROVEN"
           /\ vres.result.fraudProof.present
                  => vres.result.fraudProof.claimHash = hash(vres.claim.text)

\* All five checks passed and the membership check failed: the verdict was
\* forced and the fraud proof is the one of the membership check.
C26_Witness ==
    /\ Verified /\ ~vres.cached
    /\ \A i \in 1..5 : vres.result.checks[i].passed
    /\ vres.result.merkleProofValid = "false"
    /\ vres.result.verdict = "FRAUD_PROVEN"
    /\ vres.result.fraudProof.present
    /\ vres.result.fraudProof.expectedRoot = vres.context.merkleRoot
    /\ vres.result.fraudProof.claimHash = hash(vres.claim.text)

\* C29: after any earlier verify calls on the instance, a verify of a claim
\* whose merkleProof does not verify against the merkleRoot of the context
\* returns FRAUD_PROVEN with merkleProofValid = false, also when a call with
\* the same text and context and a valid proof was answered and stored before.
C29_InvalidProofIsFraudAfterEarlierCalls ==
    InvalidProofAnswered
        => /\ vres.result.merkleProofValid = "false"
           /\ vres.result.verdict = "FRAUD_PROVEN"

\* C30: a failed evidence search is not remembered: a verify answers without
\* searching only for a claim and context whose search has succeeded before,
\* so after a failed search the next verify of that claim searches again.
C30_FailedSearchIsNotRemembered ==
    (vres.op = "verify" /\ vres.cached)
        => Has(searchCache, searchCacheKey(vres.claim.text, vres.context))

====
